---- MODULE Spec2Model ----
(***************************************************************************)
(* Period-change engine (src/src/utils/helpers.py) and data validator     *)
(* (src/src/data/data_validator.py) of the commodity price dashboard.      *)
(*                                                                         *)
(* A DataFrame is a sequence of rows [Date, Price].  A Date is a whole day *)
(* counted from 2023-01-01 (day 0); 2024-01-01 is day 365 and 2025-01-01   *)
(* is day 731.  A Price is an integer number of ticks of 0.00005, so that  *)
(* the 0.0001 threshold of calc_price_change is 2 ticks.  A Python None is *)
(* the empty sequence and a present value v is <<v>>.  A float quotient    *)
(* a / b is kept as the fraction <<a, b>>.                                 *)
(***************************************************************************)
EXTENDS Integers, Sequences, FiniteSets, TLC

VARIABLES df,       \* the DataFrame handed to the engine, in arrival order
          pc,       \* "load" while rows arrive, then the name of the call made
          sdf,      \* calculate_change: the local df after get_sorted_dataframe
          refs,     \* calculate_change: the locals (price_h, date_h, has_h_data)
          result,   \* the dictionary returned by calculate_change
          freq,     \* the tuple returned by get_date_frequency
          args,     \* the arguments of a function called on its own
          out       \* what that call returned

vars == <<df, pc, sdf, refs, result, freq, args, out>>

-----------------------------------------------------------------------------
(* Bounds and input sets *)

MaxLen == 3          \* rows of a series in Spec
MaxFreqLen == 12     \* rows of a series in SpecFreq

Tick(x) == x * 20000

PriceCands == {Tick(100), Tick(150)}

\* dates k days before 2024-12-31 (day 730)
LagPool(lags) == {730 - k : k \in lags}

WeekPool == LagPool({0, 1, 5, 6, 8, 20})
MonthPool == LagPool({0, 25, 28, 30, 32, 41})
YearPool == LagPool({0, 300, 360, 365, 370, 431})
\* 2023-12-31, 2024-01-01, 2024-01-02, 2024-12-31, 2025-01-01
YtdPool == {364, 365, 366, 730, 731}

\* the rows of one series are drawn from one pool
Pools == {WeekPool, MonthPool, YearPool, YtdPool}

GapCands == {1, 10}

None == <<>>
Some(v) == <<v>>

Horizons == {"1d", "1w", "1m", "1y", "ytd"}

-----------------------------------------------------------------------------
(* pandas / datetime primitives *)

Abs(x) == IF x < 0 THEN 0 - x ELSE x

\* df[df['Date'] <= d]
DatesOnOrBefore(data, d) == SelectSeq(data, LAMBDA r : r.Date <= d)

\* df[df['Date'] >= d]
DatesOnOrAfter(data, d) == SelectSeq(data, LAMBDA r : r.Date >= d)

\* (data['Date'] - target).abs().argmin(): first position of the minimum
ArgMinAbs(data, target) ==
    CHOOSE i \in 1..Len(data) :
        /\ \A j \in 1..Len(data) :
               Abs(data[i].Date - target) <= Abs(data[j].Date - target)
        /\ \A j \in 1..(i - 1) :
               Abs(data[j].Date - target) > Abs(data[i].Date - target)

\* datetime(last_date.year, 1, 1)
Jan1(d) == IF d >= 731 THEN 731 ELSE IF d >= 365 THEN 365 ELSE 0

Triple(p, d, a) == [price |-> p, date |-> d, is_actual |-> a]

RowTriple(r, a) == Triple(Some(r.Price), Some(r.Date), a)

Last(data) == data[Len(data)]

-----------------------------------------------------------------------------
(* get_sorted_dataframe: sort_values('Date') uses the default sort kind,    *)
(* which does not promise an order among rows of equal Date; every          *)
(* date-ascending arrangement of the rows is a possible outcome.            *)

Perms(n) == {f \in [1..n -> 1..n] : \A i, j \in 1..n : i # j => f[i] # f[j]}

IsAscending(data) == \A i \in 1..(Len(data) - 1) : data[i].Date <= data[i + 1].Date

sort_values(data) ==
    {s \in {[i \in 1..Len(data) |-> data[f[i]]] : f \in Perms(Len(data))} :
        IsAscending(s)}

\* get_sorted_dataframe handing the frame back as it came, unsorted
get_sorted_dataframe_as_given(data) == {data}

get_sorted_dataframe(data) ==
    IF Len(data) < 2 THEN {data} ELSE sort_values(data)

-----------------------------------------------------------------------------
(* get_date_frequency *)

RECURSIVE SumDiffs(_, _)
SumDiffs(data, k) ==
    IF k < 2 THEN 0
    ELSE SumDiffs(data, k - 1) + (data[k].Date - data[k - 1].Date)

\* DiffRows with the loop bound one too far: range(1, min(len(df), 11))
DiffRows_11(data) == IF Len(data) < 11 THEN Len(data) ELSE 11

\* range(1, min(len(df), 10)) visits rows 2 .. min(len, 10) (1-based)
DiffRows(data) == IF Len(data) < 10 THEN Len(data) ELSE 10

FreqTuple(t, s, n) == [freq_type |-> t, sum |-> s, n |-> n]

get_date_frequency(data) ==
    IF Len(data) < 2 THEN FreqTuple("unknown", 30, 1)
    ELSE LET n == DiffRows(data) - 1
             s == SumDiffs(data, DiffRows(data))
         IN  IF s < 3 * n THEN FreqTuple("daily", s, n)
             ELSE IF s < 10 * n THEN FreqTuple("weekly", s, n)
             ELSE FreqTuple("monthly", s, n)

-----------------------------------------------------------------------------
(* find_reference_price: the loops run i = len-2 .. 0, i.e. over every row  *)
(* but the last, latest row first.                                          *)

Max(S) == CHOOSE x \in S : \A y \in S : y <= x

\* first row met by a descending loop whose age in days lies in [lo, hi]
LastAged(data, last_date, lo, hi) ==
    LET hits == {i \in 1..(Len(data) - 1) :
                    /\ last_date - data[i].Date >= lo
                    /\ last_date - data[i].Date <= hi}
    IN  IF hits = {} THEN 0 ELSE Max(hits)

\* first row met by a descending loop that is at least lo days old
LastOlder(data, last_date, lo) ==
    LET hits == {i \in 1..(Len(data) - 1) : last_date - data[i].Date >= lo}
    IN  IF hits = {} THEN 0 ELSE Max(hits)

\* descending loop keeping the strictly closest age to 30 among ages > 7
ClosestTo30(data, last_date) ==
    LET cand == {i \in 1..(Len(data) - 1) : last_date - data[i].Date > 7}
        d(i) == Abs((last_date - data[i].Date) - 30)
        best == {i \in cand : \A j \in cand : d(i) <= d(j)}
    IN  IF cand = {} THEN 0 ELSE Max(best)

find_reference_price(data, last_date, freq_type) ==
    IF Len(data) < 2
    THEN IF Len(data) = 0 THEN None ELSE Some(data[1].Price)
    ELSE LET idx ==
                 IF freq_type = "daily" THEN LastAged(data, last_date, 1, 3)
                 ELSE IF freq_type = "weekly"
                 THEN IF LastAged(data, last_date, 5, 10) # 0
                      THEN LastAged(data, last_date, 5, 10)
                      ELSE LastOlder(data, last_date, 3)
                 ELSE IF LastAged(data, last_date, 25, 35) # 0
                      THEN LastAged(data, last_date, 25, 35)
                      ELSE IF ClosestTo30(data, last_date) # 0
                           THEN ClosestTo30(data, last_date)
                           ELSE LastOlder(data, last_date, 14)
         IN  IF idx = 0 THEN Some(data[Len(data) - 1].Price)
             ELSE Some(data[idx].Price)

-----------------------------------------------------------------------------
(* calc_price_change: `previous and abs(previous) > 0.0001`; 0.0001 is 2    *)
(* ticks.                                                                   *)

SmallPrice == 2

\* calc_price_change dividing from the threshold on: abs(previous) >= 0.0001
calc_price_change_from_threshold(current, previous) ==
    IF current = None \/ previous = None
    THEN [change |-> None, pct |-> None]
    ELSE LET abs_change == current[1] - previous[1]
         IN  IF previous[1] # 0 /\ Abs(previous[1]) >= SmallPrice
             THEN [change |-> Some(abs_change),
                   pct |-> Some(<<abs_change, previous[1]>>)]
             ELSE [change |-> Some(abs_change), pct |-> Some(<<0, 1>>)]

\* calc_price_change taking the percent change from magnitudes:
\* abs(abs_change) / abs(previous)
calc_price_change_magnitude(current, previous) ==
    IF current = None \/ previous = None
    THEN [change |-> None, pct |-> None]
    ELSE LET abs_change == current[1] - previous[1]
         IN  IF previous[1] # 0 /\ Abs(previous[1]) > SmallPrice
             THEN [change |-> Some(abs_change),
                   pct |-> Some(<<Abs(abs_change), Abs(previous[1])>>)]
             ELSE [change |-> Some(abs_change), pct |-> Some(<<0, 1>>)]

calc_price_change(current, previous) ==
    IF current = None \/ previous = None
    THEN [change |-> None, pct |-> None]
    ELSE LET abs_change == current[1] - previous[1]
         IN  IF previous[1] # 0 /\ Abs(previous[1]) > SmallPrice
             THEN [change |-> Some(abs_change),
                   pct |-> Some(<<abs_change, previous[1]>>)]
             ELSE [change |-> Some(abs_change), pct |-> Some(<<0, 1>>)]

-----------------------------------------------------------------------------
(* The reference point locator *)

find_daily_price(data, df_before, last_date) ==
    IF Len(df_before) >= 2
    THEN RowTriple(Last(df_before), last_date - Last(df_before).Date <= 5)
    ELSE RowTriple(Last(df_before), FALSE)

\* find_weekly_price widening over the whole frame: rows 5 to 14 days old
find_weekly_price_wide_of_frame(data, df_before, last_date) ==
    LET week_data == DatesOnOrBefore(DatesOnOrAfter(df_before, last_date - 9),
                                     last_date - 6)
        wide_data == DatesOnOrBefore(DatesOnOrAfter(data, last_date - 14),
                                     last_date - 5)
    IN  IF Len(week_data) > 0
        THEN RowTriple(week_data[ArgMinAbs(week_data, last_date - 7)], TRUE)
        ELSE IF Len(wide_data) > 0
        THEN RowTriple(wide_data[ArgMinAbs(wide_data, last_date - 7)], TRUE)
        ELSE RowTriple(Last(df_before), FALSE)

find_weekly_price(data, df_before, last_date) ==
    LET week_data == DatesOnOrBefore(DatesOnOrAfter(df_before, last_date - 9),
                                     last_date - 6)
        wide_data == DatesOnOrAfter(df_before, last_date - 14)
    IN  IF Len(week_data) > 0
        THEN RowTriple(week_data[ArgMinAbs(week_data, last_date - 7)], TRUE)
        ELSE IF Len(wide_data) > 0
        THEN RowTriple(wide_data[ArgMinAbs(wide_data, last_date - 7)], TRUE)
        ELSE RowTriple(Last(df_before), FALSE)

\* find_monthly_price whose last resort takes the first row of df_before
find_monthly_price_earliest(data, df_before, last_date) ==
    LET month_data == DatesOnOrBefore(DatesOnOrAfter(df_before, last_date - 32),
                                      last_date - 28)
        wide_data == DatesOnOrAfter(df_before, last_date - 40)
    IN  IF Len(month_data) > 0
        THEN RowTriple(month_data[ArgMinAbs(month_data, last_date - 30)], TRUE)
        ELSE IF Len(wide_data) > 0
        THEN RowTriple(wide_data[ArgMinAbs(wide_data, last_date - 30)], TRUE)
        ELSE RowTriple(df_before[1], FALSE)

find_monthly_price(data, df_before, last_date) ==
    LET month_data == DatesOnOrBefore(DatesOnOrAfter(df_before, last_date - 32),
                                      last_date - 28)
        wide_data == DatesOnOrAfter(df_before, last_date - 40)
    IN  IF Len(month_data) > 0
        THEN RowTriple(month_data[ArgMinAbs(month_data, last_date - 30)], TRUE)
        ELSE IF Len(wide_data) > 0
        THEN RowTriple(wide_data[ArgMinAbs(wide_data, last_date - 30)], TRUE)
        ELSE RowTriple(Last(df_before), FALSE)

find_yearly_price(data, df_before, last_date) ==
    LET year_data == DatesOnOrBefore(DatesOnOrAfter(df_before, last_date - 370),
                                     last_date - 360)
        wide_data == DatesOnOrAfter(df_before, last_date - 430)
    IN  IF Len(year_data) > 0
        THEN RowTriple(year_data[ArgMinAbs(year_data, last_date - 365)], TRUE)
        ELSE IF Len(wide_data) > 0
        THEN RowTriple(wide_data[ArgMinAbs(wide_data, last_date - 365)], TRUE)
        ELSE RowTriple(Last(df_before), FALSE)

\* find_ytd_price taking the latest row of the year: jan_data.iloc[-1]
find_ytd_price_latest(data, last_date) ==
    LET jan_1 == Jan1(last_date)
        jan_data == DatesOnOrAfter(data, jan_1)
        last_year_data == DatesOnOrBefore(data, jan_1)
    IN  IF Len(jan_data) > 0 THEN RowTriple(Last(jan_data), TRUE)
        ELSE IF Len(last_year_data) > 0
        THEN RowTriple(Last(last_year_data), FALSE)
        ELSE RowTriple(data[1], FALSE)

find_ytd_price(data, last_date) ==
    LET jan_1 == Jan1(last_date)
        jan_data == DatesOnOrAfter(data, jan_1)
        last_year_data == DatesOnOrBefore(data, jan_1)
    IN  IF Len(jan_data) > 0 THEN RowTriple(jan_data[1], TRUE)
        ELSE IF Len(last_year_data) > 0
        THEN RowTriple(Last(last_year_data), FALSE)
        ELSE RowTriple(data[1], FALSE)

\* find_period_price falling back to the latest row when nothing lies on or
\* before the target date: df['Price'].iloc[-1]
find_period_price_latest_fallback(data, last_date, period_days, label) ==
    IF Len(data) = 0 THEN Triple(None, None, FALSE)
    ELSE LET target_date == last_date - period_days
             df_before == DatesOnOrBefore(data, target_date)
         IN  IF Len(df_before) = 0 THEN RowTriple(Last(data), FALSE)
             ELSE IF label = "1d" THEN find_daily_price(data, df_before, last_date)
             ELSE IF label = "1w" THEN find_weekly_price(data, df_before, last_date)
             ELSE IF label = "1m" THEN find_monthly_price(data, df_before, last_date)
             ELSE IF label = "1y" THEN find_yearly_price(data, df_before, last_date)
             ELSE IF label = "ytd" THEN find_ytd_price(data, last_date)
             ELSE RowTriple(Last(df_before), FALSE)

find_period_price(data, last_date, period_days, label) ==
    IF Len(data) = 0 THEN Triple(None, None, FALSE)
    ELSE LET target_date == last_date - period_days
             df_before == DatesOnOrBefore(data, target_date)
         IN  IF Len(df_before) = 0 THEN RowTriple(data[1], FALSE)
             ELSE IF label = "1d" THEN find_daily_price(data, df_before, last_date)
             ELSE IF label = "1w" THEN find_weekly_price(data, df_before, last_date)
             ELSE IF label = "1m" THEN find_monthly_price(data, df_before, last_date)
             ELSE IF label = "1y" THEN find_yearly_price(data, df_before, last_date)
             ELSE IF label = "ytd" THEN find_ytd_price(data, last_date)
             ELSE RowTriple(Last(df_before), FALSE)

\* the target lag calculate_change passes for each horizon
PeriodDays(label, last_date) ==
    IF label = "1d" THEN 1
    ELSE IF label = "1w" THEN 7
    ELSE IF label = "1m" THEN 30
    ELSE IF label = "1y" THEN 365
    ELSE last_date - Jan1(last_date)

\* the five find_period_price calls of calculate_change
PeriodPrices(data) ==
    [h \in Horizons |->
        find_period_price(data, Last(data).Date, PeriodDays(h, Last(data).Date), h)]

-----------------------------------------------------------------------------
(* calculate_change *)

EmptyResult ==
    [last_price |-> None, previous_price |-> None,
     change_1d |-> None, change_1d_pct |-> None,
     change_1w |-> None, change_1w_pct |-> None,
     change_1m |-> None, change_1m_pct |-> None,
     change_1y |-> None, change_1y_pct |-> None,
     change_ytd |-> None, change_ytd_pct |-> None]

\* the native flags of lines 487-489; f is the detected frequency, whose
\* avg_diff is f.sum / f.n
is_daily_native(f) == f.freq_type = "daily" /\ f.sum <= 3 * f.n

\* is_weekly_native without the lower limit: freq_type == 'weekly' and
\* avg_diff <= 10
is_weekly_native_up_to_10(f) ==
    \/ f.freq_type = "weekly" /\ f.sum <= 10 * f.n
    \/ f.freq_type = "daily" /\ ~is_daily_native(f)

is_weekly_native(f) ==
    \/ f.freq_type = "weekly" /\ 3 * f.n < f.sum /\ f.sum <= 10 * f.n
    \/ f.freq_type = "daily" /\ ~is_daily_native(f)

\* is_monthly_native without its catch-all: freq_type == 'monthly' and
\* avg_diff > 10
is_monthly_native_monthly_only(f) == f.freq_type = "monthly" /\ f.sum > 10 * f.n

is_monthly_native(f) ==
    \/ f.freq_type = "monthly" /\ f.sum > 10 * f.n
    \/ ~is_daily_native(f) /\ ~is_weekly_native(f)

\* lines 492-497
best_period(f) ==
    IF is_daily_native(f) THEN "1d"
    ELSE IF is_weekly_native(f) THEN "1w" ELSE "1m"

\* the dictionary built from line 445 on, for the sorted frame
FullResult(sorted) ==
    LET last_price == Some(Last(sorted).Price)
        last_date == Last(sorted).Date
        f == get_date_frequency(sorted)
        freq_type == f.freq_type
        previous_price == find_reference_price(sorted, last_date, freq_type)
        recent == calc_price_change(last_price, previous_price)
        p == PeriodPrices(sorted)
        c(h) == calc_price_change(last_price, p[h].price)
    IN  [last_price |-> last_price,
         previous_price |-> previous_price,
         freq_type |-> freq_type,
         avg_days_between_points |-> <<f.sum, f.n>>,
         change_recent |-> recent.change,
         change_recent_pct |-> recent.pct,
         change_1d |-> c("1d").change, change_1d_pct |-> c("1d").pct,
         change_1w |-> c("1w").change, change_1w_pct |-> c("1w").pct,
         change_1m |-> c("1m").change, change_1m_pct |-> c("1m").pct,
         change_1y |-> c("1y").change, change_1y_pct |-> c("1y").pct,
         change_ytd |-> c("ytd").change, change_ytd_pct |-> c("ytd").pct,
         change_1d_date |-> p["1d"].date,
         change_1w_date |-> p["1w"].date,
         change_1m_date |-> p["1m"].date,
         change_1y_date |-> p["1y"].date,
         change_ytd_date |-> p["ytd"].date,
         change_1d_has_actual_data |-> p["1d"].is_actual,
         change_1w_has_actual_data |-> p["1w"].is_actual,
         change_1m_has_actual_data |-> p["1m"].is_actual,
         change_1y_has_actual_data |-> p["1y"].is_actual,
         change_ytd_has_actual_data |-> p["ytd"].is_actual,
         change_1d_is_native |-> is_daily_native(f),
         change_1w_is_native |-> is_weekly_native(f),
         change_1m_is_native |-> is_monthly_native(f),
         change_1y_is_native |-> TRUE,
         change_ytd_is_native |-> TRUE,
         change_1d_is_duplicate |-> ~p["1d"].is_actual,
         change_1w_is_duplicate |-> ~p["1w"].is_actual,
         change_1m_is_duplicate |-> ~p["1m"].is_actual,
         change_1y_is_duplicate |-> ~p["1y"].is_actual,
         change_ytd_is_duplicate |-> ~p["ytd"].is_actual,
         change_1d_is_applicable |-> is_daily_native(f),
         change_1w_is_applicable |-> is_weekly_native(f) \/ is_daily_native(f),
         change_1m_is_applicable |-> TRUE,
         change_1y_is_applicable |-> TRUE,
         change_ytd_is_applicable |-> TRUE,
         best_period |-> best_period(f)]

\* calculate_change guarding only the empty frame: `if df.empty`
calculate_change_empty_only(data, sorted) ==
    IF Len(data) < 1 THEN EmptyResult ELSE FullResult(sorted)

\* sorted is the outcome of get_sorted_dataframe(data)
calculate_change(data, sorted) ==
    IF Len(data) < 2 THEN EmptyResult ELSE FullResult(sorted)

-----------------------------------------------------------------------------
(* The state machine: a series arrives row by row, in any order, and the    *)
(* dashboard computes its changes.                                          *)

Init ==
    /\ df = <<>>
    /\ pc = "load"
    /\ sdf = <<>>
    /\ refs = <<>>
    /\ result = <<>>
    /\ freq = <<>>
    /\ args = <<>>
    /\ out = <<>>

\* one more row of the fetched series
LoadRow ==
    /\ pc = "load"
    /\ Len(df) < MaxLen
    /\ \E pool \in Pools, d \in UNION Pools, p \in PriceCands :
          /\ d \in pool
          /\ \A i \in 1..Len(df) : df[i].Date \in pool
          /\ df' = Append(df, [Date |-> d, Price |-> p])
    /\ UNCHANGED <<pc, sdf, refs, result, freq, args, out>>

\* Dashboard.load_data / render: changes = calculate_change(df)
CalculateChange ==
    /\ pc = "load"
    /\ \E s \in get_sorted_dataframe(df) :
          /\ result' = calculate_change(df, s)
          /\ sdf' = IF Len(df) < 2 THEN <<>> ELSE s
          /\ refs' = IF Len(df) < 2 THEN <<>> ELSE PeriodPrices(s)
          /\ freq' = IF Len(df) < 2 THEN <<>> ELSE get_date_frequency(s)
    /\ pc' = "done"
    /\ UNCHANGED <<df, args, out>>

Next == LoadRow \/ CalculateChange

Spec == Init /\ [][Next]_vars

(* Frequency detection on its own: a date-ascending series grows by one    *)
(* gap at a time and get_date_frequency is applied to it.                   *)

AppendGap ==
    /\ pc = "load"
    /\ Len(df) < MaxFreqLen
    /\ \E g \in GapCands :
          df' = Append(df, [Date |-> IF Len(df) = 0 THEN 0 ELSE Last(df).Date + g,
                            Price |-> Tick(100)])
    /\ UNCHANGED <<pc, sdf, refs, result, freq, args, out>>

DetectFrequency ==
    /\ pc = "load"
    /\ freq' = get_date_frequency(df)
    /\ pc' = "done"
    /\ UNCHANGED <<df, sdf, refs, result, args, out>>

NextFreq == AppendGap \/ DetectFrequency

SpecFreq == Init /\ [][NextFreq]_vars

TypeOK ==
    /\ pc \in {"load", "done", "normalized", "validated", "summarized", "rendered", "called",
              "fetched", "validated_all", "got"}
    /\ Len(df) <= MaxFreqLen

-----------------------------------------------------------------------------
(* calc_price_change on its own: both arguments are drawn from prices on    *)
(* either side of the 0.0001 threshold (2 ticks), ordinary prices and None. *)

ChangeCands ==
    {None} \cup {Some(v) : v \in {0 - Tick(100), -3, -2, -1, 0, 1, 2, 3,
                                  Tick(100), Tick(150)}}

InitChange ==
    /\ df = <<>>
    /\ pc = "load"
    /\ sdf = <<>>
    /\ refs = <<>>
    /\ result = <<>>
    /\ freq = <<>>
    /\ args \in [current : ChangeCands, previous : ChangeCands]
    /\ out = <<>>

CalcPriceChange ==
    /\ pc = "load"
    /\ out' = calc_price_change(args.current, args.previous)
    /\ pc' = "done"
    /\ UNCHANGED <<df, sdf, refs, result, freq, args>>

NextChange == CalcPriceChange

SpecChange == InitChange /\ [][NextChange]_vars

(* calculate_change on short series holding a price under the 0.0001        *)
(* threshold (1 tick) next to an ordinary price; the dates are 0, 1, 7 and  *)
(* 30 days before the latest.                                               *)

MaxShortLen == 3

ShortPool == LagPool({0, 1, 7, 30})

ShortPrices == {1, Tick(100)}

LoadShortRow ==
    /\ pc = "load"
    /\ Len(df) < MaxShortLen
    /\ \E d \in ShortPool, p \in ShortPrices :
          df' = Append(df, [Date |-> d, Price |-> p])
    /\ UNCHANGED <<pc, sdf, refs, result, freq, args, out>>

\* get_sorted_dataframe applied to the series and again to its own outcome
NormalizeTwice ==
    /\ pc = "load"
    /\ \E first \in get_sorted_dataframe(df) :
          \E second \in get_sorted_dataframe(first) :
              out' = [first |-> first, second |-> second]
    /\ pc' = "normalized"
    /\ UNCHANGED <<df, sdf, refs, result, freq, args>>

NextShort == LoadShortRow \/ CalculateChange \/ NormalizeTwice

SpecShort == Init /\ [][NextShort]_vars

-----------------------------------------------------------------------------
(* DataValidator.validate_dataframe (src/src/data/data_validator.py).       *)
(* A frame is [columns, rows]; a row is [Date, Price] with Price a present  *)
(* value <<v>> or NaN (None).  Prices of the validator's frames count units *)
(* of 5 (20 is 100.0, 2000 is 10000.0, -1 is -5.0).  An issue string is the *)
(* tuple of its fixed text and the number or names it carries.  The empty  *)
(* metrics dict is <<>>; a metrics key that was never set holds None.       *)

MaxFrameLen == 3     \* rows of a frame drawn row by row
MaxFlat == 20        \* equal prices in a frame of one deviating price

\* DataFrame.empty: no rows or no columns
empty(frame) == Len(frame.rows) = 0 \/ frame.columns = {}

required_columns == <<"Date", "Price">>

\* missing_columns with required_columns = ['Date']
missing_columns_date_only(frame) ==
    SelectSeq(<<"Date">>, LAMBDA col : col \notin frame.columns)

missing_columns(frame) ==
    SelectSeq(required_columns, LAMBDA col : col \notin frame.columns)

\* rows whose Price is not NaN
Present(rows) == {i \in 1..Len(rows) : rows[i].Price # None}

nan_count(rows) == Cardinality({i \in 1..Len(rows) : rows[i].Price = None})

\* the negative count taken with <= : (df['Price'] <= 0).sum()
neg_count_nonpositive(rows) ==
    Cardinality({i \in Present(rows) : rows[i].Price[1] <= 0})

neg_count(rows) == Cardinality({i \in Present(rows) : rows[i].Price[1] < 0})

\* Series.is_monotonic_strictly_increasing, which is not what line 73 calls
is_monotonic_increasing_strictly(rows) ==
    \A i \in 1..(Len(rows) - 1) : rows[i].Date < rows[i + 1].Date

\* Series.is_monotonic_increasing: each value >= the one before
is_monotonic_increasing(rows) ==
    \A i \in 1..(Len(rows) - 1) : rows[i].Date <= rows[i + 1].Date

\* Series.duplicated().sum(): rows whose Date occurred in an earlier row
duplicate_dates(rows) ==
    Cardinality({i \in 1..Len(rows) :
                    \E j \in 1..(i - 1) : rows[j].Date = rows[i].Date})

\* the rows hold midnights, so a Date is after datetime.now() exactly when
\* its day is after today's
future_dates(rows, now) ==
    Cardinality({i \in 1..Len(rows) : rows[i].Date > now})

\* sum of the present prices among the first k rows; NaN is skipped
RECURSIVE PriceSum(_, _)
PriceSum(rows, k) ==
    IF k = 0 THEN 0
    ELSE PriceSum(rows, k - 1)
         + (IF rows[k].Price = None THEN 0 ELSE rows[k].Price[1])

RECURSIVE SquareSum(_, _)
SquareSum(rows, k) ==
    IF k = 0 THEN 0
    ELSE SquareSum(rows, k - 1)
         + (IF rows[k].Price = None THEN 0
            ELSE rows[k].Price[1] * rows[k].Price[1])

PresentPrices(rows) == {rows[i].Price[1] : i \in Present(rows)}

min_price(rows) ==
    IF Present(rows) = {} THEN None
    ELSE Some(CHOOSE v \in PresentPrices(rows) :
                  \A w \in PresentPrices(rows) : v <= w)

max_price(rows) ==
    IF Present(rows) = {} THEN None
    ELSE Some(CHOOSE v \in PresentPrices(rows) :
                  \A w \in PresentPrices(rows) : w <= v)

mean_price(rows) ==
    IF Present(rows) = {} THEN None
    ELSE Some(<<PriceSum(rows, Len(rows)), Cardinality(Present(rows))>>)

\* the k-th smallest present price
KthPrice(rows, k) ==
    CHOOSE v \in PresentPrices(rows) :
        /\ Cardinality({i \in Present(rows) : rows[i].Price[1] < v}) < k
        /\ k <= Cardinality({i \in Present(rows) : rows[i].Price[1] <= v})

median_price(rows) ==
    LET m == Cardinality(Present(rows))
    IN  IF m = 0 THEN None
        ELSE IF m % 2 = 1 THEN Some(<<KthPrice(rows, (m + 1) \div 2), 1>>)
        ELSE Some(<<KthPrice(rows, m \div 2) + KthPrice(rows, m \div 2 + 1), 2>>)

\* Series.std() is the sample deviation (ddof = 1), NaN under 2 values; the
\* fraction kept here is its square, the sample variance
std_dev(rows) ==
    LET m == Cardinality(Present(rows))
        s == PriceSum(rows, Len(rows))
    IN  IF m < 2 THEN None
        ELSE Some(<<m * SquareSum(rows, Len(rows)) - s * s, m * (m - 1)>>)

date_range(rows) ==
    <<CHOOSE d \in {rows[i].Date : i \in 1..Len(rows)} :
          \A i \in 1..Len(rows) : d <= rows[i].Date,
      CHOOSE d \in {rows[i].Date : i \in 1..Len(rows)} :
          \A i \in 1..Len(rows) : rows[i].Date <= d>>

RECURSIVE Gcd(_, _)
Gcd(a, b) == IF b = 0 THEN a ELSE Gcd(b, a % b)

\* Price - mean of every row, times the number of present prices; a NaN
\* price is given 0, which adds nothing to the sums below
Deviations(rows) ==
    LET m == Cardinality(Present(rows))
        total == PriceSum(rows, Len(rows))
    IN  [i \in 1..Len(rows) |->
            IF rows[i].Price = None THEN 0 ELSE m * rows[i].Price[1] - total]

RECURSIVE GcdOf(_, _)
GcdOf(ds, k) == IF k = 0 THEN 0 ELSE Gcd(GcdOf(ds, k - 1), Abs(ds[k]))

RECURSIVE SquaresOf(_, _)
SquaresOf(ds, k) == IF k = 0 THEN 0 ELSE SquaresOf(ds, k - 1) + ds[k] * ds[k]

\* (Price - mean) / std before np.abs, kept by its signed square
\* <<+-(m - 1) * d^2, sum of d^2>> with the deviations d in the largest unit
\* that keeps them whole; NaN for a NaN price, under 2 present prices (std
\* is NaN) and for equal prices (0 / 0)
Standardized(rows) ==
    LET m == Cardinality(Present(rows))
        dev == Deviations(rows)
        unit == GcdOf(dev, Len(rows))
        d == [i \in 1..Len(rows) |-> dev[i] \div unit]
        squares == SquaresOf(d, Len(rows))
    IN  [i \in 1..Len(rows) |->
            IF rows[i].Price = None \/ m < 2 \/ unit = 0 THEN None
            ELSE Some(<<(IF d[i] < 0 THEN 0 - 1 ELSE 1) * (m - 1) * d[i] * d[i],
                        squares>>)]

z_scores(rows) ==
    LET z == Standardized(rows)
    IN  [i \in 1..Len(rows) |->
            IF z[i] = None THEN None ELSE Some(<<Abs(z[i][1][1]), z[i][1][2]>>)]

\* the outlier count taken without np.abs: (z > 3).sum() on the signed scores
outliers_high_only(rows) ==
    LET z == Standardized(rows)
    IN  Cardinality({i \in 1..Len(rows) :
                        z[i] # None /\ z[i][1][1] > 9 * z[i][1][2]})

\* (z_scores > 3).sum(): z > 3 exactly when its square is above 9
outliers(rows) ==
    LET z == z_scores(rows)
    IN  Cardinality({i \in 1..Len(rows) :
                        z[i] # None /\ z[i][1][1] > 9 * z[i][1][2]})

\* df.sort_values('Date'): any date-ascending arrangement; a frame whose
\* dates already ascend strictly has one
df_sorted(rows) ==
    IF is_monotonic_increasing_strictly(rows) THEN {rows} ELSE sort_values(rows)

\* Series.pct_change() pads NaN with the last present price before dividing
\* in pandas 1.x and 2.x and leaves NaN alone in pandas 3; the repository
\* pins no version
FillMethods == {"pad", "none"}

Filled(s, i, fill_method) ==
    IF fill_method = "none" THEN s[i].Price
    ELSE LET seen == {j \in 1..i : s[j].Price # None}
         IN  IF seen = {} THEN None ELSE s[Max(seen)].Price

\* pct_change().abs() > 0.5 at row i of the sorted frame; a NaN on either
\* side compares False, a division of a nonzero price by 0 is infinite
LargeJumpAt(s, i, fill_method) ==
    LET cur == Filled(s, i, fill_method)
        prev == Filled(s, i - 1, fill_method)
    IN  /\ cur # None
        /\ prev # None
        /\ IF prev[1] = 0 THEN cur[1] # 0
           ELSE 2 * Abs(cur[1] - prev[1]) > Abs(prev[1])

large_jumps(s, fill_method) ==
    Cardinality({i \in 2..Len(s) : LargeJumpAt(s, i, fill_method)})

\* the issue a count brings when it is above 0
CountIssue(text, count) == IF count > 0 THEN <<(<<text, count>>)>> ELSE <<>>

\* lines 72-79 with the duplicate check hanging off the order check as elif
date_issues_elif(rows) ==
    IF ~is_monotonic_increasing(rows)
    THEN <<(<<"Dates are not in ascending order">>)>>
    ELSE CountIssue("duplicate dates", duplicate_dates(rows))

\* lines 72-79: the order check, then the duplicate check
date_issues(rows) ==
    (IF ~is_monotonic_increasing(rows)
     THEN <<(<<"Dates are not in ascending order">>)>> ELSE <<>>)
    \o CountIssue("duplicate dates", duplicate_dates(rows))

\* the dictionary of the two early returns
Rejected(commodity_name, issue) ==
    [commodity |-> commodity_name, valid |-> FALSE,
     issues |-> <<issue>>, metrics |-> <<>>]

\* lines 58-115 for one outcome of the sort and one pandas
Checked(rows, commodity_name, now, s, fill_method) ==
    LET outlier_count == outliers(rows)
        jump_count == large_jumps(s, fill_method)
        issues ==
            CountIssue("missing values", nan_count(rows))
            \o CountIssue("negative prices", neg_count(rows))
            \o date_issues(rows)
            \o CountIssue("dates in the future", future_dates(rows, now))
            \o CountIssue("potential outliers", outlier_count)
            \o CountIssue("large price jumps", jump_count)
    IN  [commodity |-> commodity_name,
         valid |-> Len(issues) = 0,
         issues |-> issues,
         metrics |->
            [count |-> Len(rows),
             min_price |-> min_price(rows),
             max_price |-> max_price(rows),
             mean_price |-> mean_price(rows),
             median_price |-> median_price(rows),
             std_dev |-> std_dev(rows),
             date_range |-> date_range(rows),
             outliers |-> IF outlier_count > 0 THEN Some(outlier_count)
                          ELSE None,
             large_jumps |-> IF jump_count > 0 THEN Some(jump_count)
                             ELSE None]]

\* every dictionary validate_dataframe can return
validate_dataframe(frame, commodity_name, now) ==
    IF empty(frame)
    THEN {Rejected(commodity_name, <<"No data available">>)}
    ELSE IF Len(missing_columns(frame)) > 0
    THEN {Rejected(commodity_name,
                   <<"Missing required columns", missing_columns(frame)>>)}
    ELSE {Checked(frame.rows, commodity_name, now, s, fill_method) :
            s \in df_sorted(frame.rows), fill_method \in FillMethods}

(* validate_dataframe on its own.  The frames are every frame of up to     *)
(* MaxFrameLen rows over three days around today and four prices, the same *)
(* rows under a missing column, and frames of 9 to MaxFlat rows of one     *)
(* price plus one row of another, dated on consecutive past days.          *)

NowCands == {730}

FrameDates == {729, 730, 731}

FramePrices == {None, Some(0 - 1), Some(0), Some(20)}

FrameRows == [Date : FrameDates, Price : FramePrices]

AllColumns == {"Date", "Price", "Volume"}

ShortFrames ==
    [columns : {AllColumns},
     rows : UNION {[1..n -> FrameRows] : n \in 0..MaxFrameLen}]

\* a frame without Date, without Price, without both, without any column
LackingFrames ==
    [columns : {{"Price", "Volume"}, {"Date", "Volume"}, {"Volume"}, {}},
     rows : UNION {[1..n -> {[Date |-> 729, Price |-> Some(20)]}] :
                     n \in 0..MaxFrameLen}]

FlatPrices == {<<20, 2000>>, <<2000, 20>>, <<20, 20>>}

\* n rows of price ab[1] and one row, the k-th, of price ab[2]
Flat(n, ab, k) ==
    [columns |-> AllColumns,
     rows |-> [i \in 1..(n + 1) |->
                  [Date |-> 600 + i,
                   Price |-> Some(IF i = k THEN ab[2] ELSE ab[1])]]]

FlatFrames ==
    UNION {{Flat(n, ab, k) : ab \in FlatPrices, k \in {1, 2, n + 1}} :
              n \in 9..MaxFlat}

Frames == ShortFrames \cup LackingFrames \cup FlatFrames

InitValidate ==
    /\ df = <<>>
    /\ pc = "load"
    /\ sdf = <<>>
    /\ refs = <<>>
    /\ result = <<>>
    /\ freq = <<>>
    /\ args \in [frame : Frames, commodity_name : {"Copper"}, now : NowCands]
    /\ out = <<>>

ValidateDataframe ==
    /\ pc = "load"
    /\ out' \in validate_dataframe(args.frame, args.commodity_name, args.now)
    /\ pc' = "validated"
    /\ UNCHANGED <<df, sdf, refs, result, freq, args>>

NextValidate == ValidateDataframe

SpecValidate == InitValidate /\ [][NextValidate]_vars

-----------------------------------------------------------------------------
(* DataValidator.get_validation_summary.  A dict keyed by commodity is a    *)
(* function on the set of its keys.                                         *)

\* the invalid entries picked by their issue list: `if details['issues']`
commodities_with_issues_nonempty(validation_results) ==
    LET kept == {c \in DOMAIN validation_results :
                    Len(validation_results[c].issues) > 0}
    IN  [c \in kept |-> validation_results[c].issues]

\* lines 146-150: commodity -> issues for the entries that are not valid
commodities_with_issues(validation_results) ==
    LET kept == {c \in DOMAIN validation_results :
                    ~validation_results[c].valid}
    IN  [c \in kept |-> validation_results[c].issues]

get_validation_summary(validation_results) ==
    [total_commodities |-> Cardinality(DOMAIN validation_results),
     valid_commodities |->
        Cardinality({c \in DOMAIN validation_results :
                        validation_results[c].valid}),
     commodities_with_issues |->
        Cardinality(DOMAIN commodities_with_issues(validation_results)),
     issue_details |-> commodities_with_issues(validation_results)]

(* get_validation_summary on its own: any map from up to three commodities *)
(* to a result, whether or not its valid flag agrees with its issue list.   *)

Commodities == {"Copper", "Gold", "Zinc"}

IssueLists ==
    {<<>>,
     <<(<<"No data available">>)>>,
     <<(<<"negative prices", 1>>), (<<"duplicate dates", 1>>)>>}

ResultCands(c) ==
    [commodity : {c}, valid : BOOLEAN, issues : IssueLists, metrics : {<<>>}]

\* every map from a set of commodities to results of those commodities
ResultMaps ==
    UNION {{m \in [keys -> UNION {ResultCands(c) : c \in keys}] :
               \A c \in keys : m[c].commodity = c} :
           keys \in SUBSET Commodities}

InitSummary ==
    /\ df = <<>>
    /\ pc = "load"
    /\ sdf = <<>>
    /\ refs = <<>>
    /\ result = <<>>
    /\ freq = <<>>
    /\ args \in [validation_results : ResultMaps]
    /\ out = <<>>

GetValidationSummary ==
    /\ pc = "load"
    /\ out' = get_validation_summary(args.validation_results)
    /\ pc' = "summarized"
    /\ UNCHANGED <<df, sdf, refs, result, freq, args>>

NextSummary == GetValidationSummary

SpecSummary == InitSummary /\ [][NextSummary]_vars

-----------------------------------------------------------------------------
(* format_change_value and the price-change block of                        *)
(* Dashboard.render_individual_tabs.  A display text is the sequence of its *)
(* parts: a fixed message alone, or the change, the percentage and, when    *)
(* present, the asterisk.  A formatted number is kept as <<sign, value,     *)
(* decimals>>: the sign prefix, the value handed to the format and the      *)
(* number of decimals of its format spec.                                   *)
(* calculate_change hands over None or numbers only, so float() succeeds   *)
(* and the "Invalid data" return is never taken.                           *)

\* abs(x) < 0.000001 for a change in ticks: only 0 is that small
TinyChange(change) == change = 0

\* abs(x) < 0.000001 for a quotient <<a, b>>: |a| * 10^6 < |b|
TinyPct(q) == Abs(q[1]) <= (Abs(q[2]) - 1) \div 1000000

\* the precision ladder of lines 892-901; 0.1 is 2000 ticks
Decimals(change) ==
    IF Abs(change) < 2000 THEN 4
    ELSE IF Abs(change) < Tick(1) THEN 3
    ELSE IF Abs(change) < Tick(10) THEN 2
    ELSE IF Abs(change) < Tick(100) THEN 1
    ELSE 0

\* format_change_value marking the references that are not duplicates
format_change_value_unless_duplicate(change, change_pct, is_duplicate, is_applicable) ==
    IF ~is_applicable THEN [text |-> <<"N/A">>, color |-> "neutral"]
    ELSE IF change = None \/ change_pct = None
    THEN [text |-> <<"No data available">>, color |-> "neutral"]
    ELSE IF TinyChange(change[1]) \/ TinyPct(change_pct[1])
    THEN [text |-> <<"No change (0.00%)">>, color |-> "neutral"]
    ELSE LET sign == IF change[1] > 0 THEN "+" ELSE ""
             change_str == <<sign, change[1], Decimals(change[1])>>
             pct_str == <<sign, change_pct[1], 2>>
         IN  [text |-> <<change_str, pct_str>>
                       \o (IF ~is_duplicate THEN <<"*">> ELSE <<>>),
              color |-> IF change[1] > 0 THEN "positive" ELSE "negative"]

format_change_value(change, change_pct, is_duplicate, is_applicable) ==
    IF ~is_applicable THEN [text |-> <<"N/A">>, color |-> "neutral"]
    ELSE IF change = None \/ change_pct = None
    THEN [text |-> <<"No data available">>, color |-> "neutral"]
    ELSE IF TinyChange(change[1]) \/ TinyPct(change_pct[1])
    THEN [text |-> <<"No change (0.00%)">>, color |-> "neutral"]
    ELSE LET sign == IF change[1] > 0 THEN "+" ELSE ""
             change_str == <<sign, change[1], Decimals(change[1])>>
             pct_str == <<sign, change_pct[1], 2>>
         IN  [text |-> <<change_str, pct_str>>
                       \o (IF is_duplicate THEN <<"*">> ELSE <<>>),
              color |-> IF change[1] > 0 THEN "positive" ELSE "negative"]

\* changes['change_<h>'] and changes['change_<h>_pct']
ChangeIn(changes, h) ==
    IF h = "1d" THEN changes.change_1d
    ELSE IF h = "1w" THEN changes.change_1w
    ELSE IF h = "1m" THEN changes.change_1m
    ELSE IF h = "1y" THEN changes.change_1y
    ELSE changes.change_ytd

PctIn(changes, h) ==
    IF h = "1d" THEN changes.change_1d_pct
    ELSE IF h = "1w" THEN changes.change_1w_pct
    ELSE IF h = "1m" THEN changes.change_1m_pct
    ELSE IF h = "1y" THEN changes.change_1y_pct
    ELSE changes.change_ytd_pct

\* changes.get('change_<h>_is_duplicate', False)
DuplicateIn(changes, h) ==
    IF "change_1d_is_duplicate" \notin DOMAIN changes THEN FALSE
    ELSE IF h = "1d" THEN changes.change_1d_is_duplicate
    ELSE IF h = "1w" THEN changes.change_1w_is_duplicate
    ELSE IF h = "1m" THEN changes.change_1m_is_duplicate
    ELSE IF h = "1y" THEN changes.change_1y_is_duplicate
    ELSE changes.change_ytd_is_duplicate

\* the five texts of lines 822-843; is_applicable keeps its default
ChangeTexts(changes) ==
    [h \in Horizons |->
        format_change_value(ChangeIn(changes, h), PctIn(changes, h),
                            DuplicateIn(changes, h), TRUE)]

\* render_individual_tabs: changes = calculate_change(df), then the texts
RenderTab ==
    /\ pc = "load"
    /\ \E s \in get_sorted_dataframe(df) :
          /\ result' = calculate_change(df, s)
          /\ sdf' = IF Len(df) < 2 THEN <<>> ELSE s
          /\ refs' = IF Len(df) < 2 THEN <<>> ELSE PeriodPrices(s)
          /\ freq' = IF Len(df) < 2 THEN <<>> ELSE get_date_frequency(s)
          /\ out' = ChangeTexts(calculate_change(df, s))
    /\ pc' = "rendered"
    /\ UNCHANGED <<df, args>>

NextRender == LoadShortRow \/ RenderTab

SpecRender == Init /\ [][NextRender]_vars

-----------------------------------------------------------------------------
(* calculate_change on a frame whose columns are not taken for granted.     *)
(* The outcome of a call is [raised, returned]: the exception that left the *)
(* call, or the value it returned.                                          *)

Returned(value) == [raised |-> None, returned |-> Some(value)]

Raised(exception, key) == [raised |-> Some(<<exception, key>>), returned |-> None]

\* every outcome of calculate_change(df): the guard of line 429 looks at
\* the rows only, df.sort_values('Date') (line 445, through
\* get_sorted_dataframe) raises KeyError without a Date column and
\* df['Price'] (line 448) raises KeyError without a Price column
calculate_change_outcomes(frame) ==
    IF empty(frame) \/ Len(frame.rows) < 2 THEN {Returned(EmptyResult)}
    ELSE IF "Date" \notin frame.columns THEN {Raised("KeyError", "Date")}
    ELSE IF "Price" \notin frame.columns THEN {Raised("KeyError", "Price")}
    ELSE {Returned(calculate_change(frame.rows, s)) :
            s \in get_sorted_dataframe(frame.rows)}

(* calculate_change called as the card and tab renderers call it, without   *)
(* a look at the columns, on frames of up to MaxShortLen rows.              *)

ColumnSets ==
    {{"Date", "Price", "Units"}, {"Price", "Units"}, {"Date", "Units"},
     {"Units"}, {}}

EngineRows == [Date : {729, 730}, Price : PriceCands]

EngineFrames ==
    [columns : ColumnSets,
     rows : UNION {[1..n -> EngineRows] : n \in 0..MaxShortLen}]

InitFrame ==
    /\ df = <<>>
    /\ pc = "load"
    /\ sdf = <<>>
    /\ refs = <<>>
    /\ result = <<>>
    /\ freq = <<>>
    /\ args \in [df : EngineFrames]
    /\ out = <<>>

CalculateChangeOfFrame ==
    /\ pc = "load"
    /\ out' \in calculate_change_outcomes(args.df)
    /\ pc' = "called"
    /\ UNCHANGED <<df, sdf, refs, result, freq, args>>

NextFrame == CalculateChangeOfFrame

SpecFrame == InitFrame /\ [][NextFrame]_vars

-----------------------------------------------------------------------------
(* BloombergAPI.get_all_commodity_data and DataValidator.validate_all_data: *)
(* the two loops over many commodities.  What get_commodity_data does for   *)
(* one commodity (raise, return an empty frame, return rows) is an input.   *)

\* src/src/config.py, cut down to three commodities of two categories
COMMODITIES ==
    <<[name |-> "Copper", category |-> "base_metals"],
      [name |-> "Zinc", category |-> "base_metals"],
      [name |-> "Gold", category |-> "precious_metals"]>>

\* [c for c in COMMODITIES if not category or c['category'] == category]
commodities_to_fetch(category) ==
    SelectSeq(COMMODITIES,
              LAMBDA c : category = None \/ c.category = category[1])

\* d[k] = v on a dict
Put(d, k, v) == [x \in DOMAIN d \cup {k} |-> IF x = k THEN v ELSE d[x]]

\* the loop body storing whatever get_commodity_data returned
StoreOutcome_any_frame(results, commodity_name, outcome) ==
    IF outcome.raised # None THEN results
    ELSE Put(results, commodity_name, outcome.returned[1])

\* lines 342-351: a raise is logged and skipped, an empty frame is skipped,
\* any other frame is stored under the commodity's name
StoreOutcome(results, commodity_name, outcome) ==
    IF outcome.raised # None THEN results
    ELSE IF empty(outcome.returned[1]) THEN results
    ELSE Put(results, commodity_name, outcome.returned[1])

FetchColumns ==
    {"Date", "Price", "Commodity", "Units", "Type", "Data Source", "Ticker"}

FetchOutcomes ==
    {Raised("ConnectionError", "fetch"),
     Returned([columns |-> FetchColumns, rows |-> <<>>]),
     Returned([columns |-> FetchColumns,
               rows |-> <<[Date |-> 728, Price |-> Some(20)],
                          [Date |-> 729, Price |-> Some(20)]>>]),
     Returned([columns |-> FetchColumns,
               rows |-> <<[Date |-> 729, Price |-> Some(0 - 1)]>>])}

InitBatch ==
    /\ df = <<>>
    /\ pc = "load"
    /\ sdf = <<>>
    /\ refs = <<>>
    /\ result = <<>>
    /\ freq = <<>>
    /\ args \in [category : {None, Some("base_metals"), Some("precious_metals")},
                 fetch : [Commodities -> FetchOutcomes],
                 now : NowCands]
    /\ out = [i |-> 0, results |-> <<>>, validation |-> <<>>]

\* one turn of the loop of get_all_commodity_data
FetchNext ==
    /\ pc = "load"
    /\ out.i < Len(commodities_to_fetch(args.category))
    /\ LET commodity_name == commodities_to_fetch(args.category)[out.i + 1].name
       IN  out' = [out EXCEPT
                     !.i = out.i + 1,
                     !.results = StoreOutcome(out.results, commodity_name,
                                              args.fetch[commodity_name])]
    /\ UNCHANGED <<df, pc, sdf, refs, result, freq, args>>

\* return results
ReturnResults ==
    /\ pc = "load"
    /\ out.i = Len(commodities_to_fetch(args.category))
    /\ pc' = "fetched"
    /\ UNCHANGED <<df, sdf, refs, result, freq, args, out>>

\* data_dict.items() in insertion order: the stored commodities not yet
\* validated, earliest fetched first
NextToValidate ==
    LET todo == {k \in 1..Len(COMMODITIES) :
                    /\ COMMODITIES[k].name \in DOMAIN out.results
                    /\ COMMODITIES[k].name \notin DOMAIN out.validation}
    IN  COMMODITIES[CHOOSE k \in todo : \A j \in todo : k <= j].name

\* one turn of the loop of validate_all_data on the fetched dict
ValidateNext ==
    /\ pc = "fetched"
    /\ DOMAIN out.validation # DOMAIN out.results
    /\ \E r \in validate_dataframe(out.results[NextToValidate],
                                   NextToValidate, args.now) :
          out' = [out EXCEPT !.validation = Put(out.validation, NextToValidate, r)]
    /\ UNCHANGED <<df, pc, sdf, refs, result, freq, args>>

\* return results
ReturnValidation ==
    /\ pc = "fetched"
    /\ DOMAIN out.validation = DOMAIN out.results
    /\ pc' = "validated_all"
    /\ UNCHANGED <<df, sdf, refs, result, freq, args, out>>

NextBatch == FetchNext \/ ReturnResults \/ ValidateNext \/ ReturnValidation

SpecBatch == InitBatch /\ [][NextBatch]_vars

-----------------------------------------------------------------------------
(* BloombergAPI.get_commodity_data.  What get_historical_data returns for   *)
(* the preferred and for the alternative ticker is an input; a fetched      *)
(* frame carries its constant metadata columns as the fields ticker and     *)
(* data_source.  The outcome keeps the sources consulted, in order, next to *)
(* the frame returned.                                                      *)

MaxFetchLen == 11    \* rows a vendor fetch returns
EnoughRows == 10     \* "enough data"
SampleLen == 60      \* rows of a generated sample series

\* pd.DataFrame() and pd.DataFrame(columns=[...])
NoFrame(columns) ==
    [columns |-> columns, rows |-> <<>>, ticker |-> None, data_source |-> None]

\* a frame of n rows of one price on consecutive days
FlatSeries(n, price) ==
    [columns |-> {"Date", "Price"},
     rows |-> [i \in 1..n |-> [Date |-> 600 + i, Price |-> price]],
     ticker |-> None, data_source |-> None]

\* the five metadata columns added to a frame
Tagged(frame, data_source, ticker) ==
    [columns |-> FetchColumns, rows |-> frame.rows,
     ticker |-> Some(ticker), data_source |-> Some(data_source)]

\* self.sample_data[commodity_name]
SampleSeries == FlatSeries(SampleLen, Tick(200))

\* the alternative ticker tried whenever there is one
try_alternative_always(frame, commodity) == commodity.alternative_ticker # None

\* the two conditions under which the alternative ticker is fetched
try_alternative(frame, commodity) ==
    /\ empty(frame) \/ Len(frame.rows) < EnoughRows
    /\ commodity.alternative_ticker # None

get_commodity_data(commodity, in_sample_data, preferred, alternative) ==
    IF commodity = None
    THEN [returned |-> NoFrame({"Date", "Price"}), consulted |-> <<>>]
    ELSE
    LET c == commodity[1]
        first == IF c.preferred_ticker = None THEN NoFrame({})
                 ELSE IF empty(preferred) THEN preferred
                 ELSE Tagged(preferred, c.data_source, c.preferred_ticker[1])
        second == IF /\ try_alternative(first, c)
                     /\ ~empty(alternative)
                     /\ empty(first) \/ Len(alternative.rows) > Len(first.rows)
                  THEN Tagged(alternative, c.data_source, c.alternative_ticker[1])
                  ELSE first
        use_sample == empty(second) /\ in_sample_data
        third == IF use_sample THEN Tagged(SampleSeries, "Sample Data", "N/A")
                 ELSE second
    IN  [returned |-> IF empty(third) THEN NoFrame(FetchColumns) ELSE third,
         consulted |->
            (IF c.preferred_ticker = None THEN <<>> ELSE <<"preferred">>)
            \o (IF try_alternative(first, c) THEN <<"alternative">> ELSE <<>>)
            \o (IF use_sample THEN <<"sample">> ELSE <<>>)]

(* get_commodity_data on its own: a commodity with or without each ticker, *)
(* or a name that is not configured, and vendor fetches of 0 to            *)
(* MaxFetchLen rows.                                                        *)

CommodityCands ==
    {None} \cup
    {Some(c) : c \in [preferred_ticker : {None, Some("LMCADY Comdty")},
                      alternative_ticker : {None, Some("XAU")},
                      data_source : {"Bloomberg",
                                     "Sample Data (Not Available on Bloomberg)"}]}

InitFetch ==
    /\ df = <<>>
    /\ pc = "load"
    /\ sdf = <<>>
    /\ refs = <<>>
    /\ result = <<>>
    /\ freq = <<>>
    /\ args \in [commodity : CommodityCands,
                 in_sample_data : BOOLEAN,
                 preferred : {FlatSeries(n, Tick(100)) : n \in 0..MaxFetchLen},
                 alternative : {FlatSeries(n, Tick(150)) : n \in 0..MaxFetchLen}]
    /\ out = <<>>

GetCommodityData ==
    /\ pc = "load"
    /\ out' = get_commodity_data(args.commodity, args.in_sample_data,
                                 args.preferred, args.alternative)
    /\ pc' = "got"
    /\ UNCHANGED <<df, sdf, refs, result, freq, args>>

NextFetch == GetCommodityData

SpecFetch == InitFetch /\ [][NextFetch]_vars

-----------------------------------------------------------------------------
(* StreamlitDataLogger.capture_data_snapshot.  st.session_state is a        *)
(* function on its keys; datetime.now() is the session's clock.  The        *)
(* snapshots built so far are kept, in capture order, beside the session.   *)

MaxCaptures == 12    \* calls of capture_data_snapshot in one session
MaxSnapshots == 10   \* snapshots kept in the session

\* {name: len(df) for name, df in data_dict.items() if not df.empty}
commodity_counts(data_dict) ==
    [name \in {n \in DOMAIN data_dict : ~empty(data_dict[n])} |->
        Len(data_dict[name].rows)]

\* make_json_serializable on a dict of strings
make_json_serializable(obj) == [k \in DOMAIN obj |-> obj[k]]

\* the entry appended at lines 125-129
Snapshot(data_dict, filters, now) ==
    [timestamp |-> now,
     commodity_counts |-> commodity_counts(data_dict),
     filters |-> IF filters = None THEN None
                 ELSE Some(make_json_serializable(filters[1]))]

\* snapshots[-n:]
LastRows(list, n) ==
    IF Len(list) <= n THEN list
    ELSE SubSeq(list, Len(list) - n + 1, Len(list))

\* the limit keeping the oldest entries: snapshots[:10]
Limited_oldest(list) ==
    IF Len(list) > MaxSnapshots THEN SubSeq(list, 1, MaxSnapshots) ELSE list

\* lines 132-133
Limited(list) ==
    IF Len(list) > MaxSnapshots THEN LastRows(list, MaxSnapshots) ELSE list

capture_data_snapshot(session_state, data_dict, filters, now) ==
    LET snapshots == IF "snapshots" \in DOMAIN session_state
                     THEN session_state.snapshots ELSE <<>>
    IN  [snapshots |->
            Limited(Append(snapshots, Snapshot(data_dict, filters, now)))]

DataDicts ==
    {[Copper |-> FlatSeries(2, Tick(100)), Gold |-> FlatSeries(0, Tick(100))],
     [Copper |-> FlatSeries(1, Tick(150))]}

FilterCands == {None, Some([category |-> "Metals"])}

\* a new session: nothing in st.session_state; the filters of the session
\* and whether its clock moves between two captures are fixed at the start
InitSession ==
    /\ df = <<>>
    /\ pc = "load"
    /\ sdf = <<>>
    /\ refs = <<>>
    /\ result = <<>>
    /\ freq = <<>>
    /\ args \in [filters : FilterCands, elapsed : {0, 1}, now : {730}]
    /\ out = <<>>

\* one call of capture_data_snapshot; result keeps every snapshot built
CaptureDataSnapshot ==
    /\ pc = "load"
    /\ Len(result) < MaxCaptures
    /\ \E data_dict \in DataDicts :
          /\ out' = capture_data_snapshot(out, data_dict, args.filters, args.now)
          /\ result' = Append(result, Snapshot(data_dict, args.filters, args.now))
    /\ args' = [args EXCEPT !.now = args.now + args.elapsed]
    /\ UNCHANGED <<df, pc, sdf, refs, freq>>

NextSession == CaptureDataSnapshot

SpecSession == InitSession /\ [][NextSession]_vars

-----------------------------------------------------------------------------
(* Vocabulary of the properties: the sorted series seen from its last date  *)

Computed == pc = "done" /\ Len(df) >= 2

LastDate == Last(sdf).Date

AgeOf(i) == LastDate - sdf[i].Date

\* rows dated between lo and hi days before the last date, both included
RowsAged(lo, hi) == {i \in 1..Len(sdf) : lo <= AgeOf(i) /\ AgeOf(i) <= hi}

LongHorizons == {"1w", "1m", "1y"}

TargetLag(h) == IF h = "1w" THEN 7 ELSE IF h = "1m" THEN 30 ELSE 365
Tier1(h) == IF h = "1w" THEN RowsAged(6, 9)
            ELSE IF h = "1m" THEN RowsAged(28, 32) ELSE RowsAged(360, 370)
Tier2(h) == IF h = "1w" THEN RowsAged(5, 14)
            ELSE IF h = "1m" THEN RowsAged(20, 40) ELSE RowsAged(300, 430)

LagDistance(i, h) == Abs(AgeOf(i) - TargetLag(h))

\* rows of S nearest to the target lag of h
Nearest(S, h) == {i \in S : \A j \in S : LagDistance(i, h) <= LagDistance(j, h)}

MinDate(S) == CHOOSE d \in {sdf[i].Date : i \in S} : \A j \in S : d <= sdf[j].Date
MaxDate(S) == CHOOSE d \in {sdf[i].Date : i \in S} : \A j \in S : d >= sdf[j].Date

\* the reference of horizon h is a row of S dated d
RefIsRowOn(h, S, d) ==
    /\ refs[h].date = Some(d)
    /\ \E i \in S : sdf[i].Date = d /\ refs[h].price = Some(sdf[i].Price)

\* C1: for 1w, 1m and 1y, whenever a row lies in the Tier-1 window
\* ([6,9], [28,32], [360,370] days before the last date) the reference is
\* the in-window row nearest to the target lag, ties to the earlier date,
\* and it is flagged as an actual observation.
C1_Tier1Closest ==
    Computed =>
        \A h \in LongHorizons :
            Tier1(h) # {} =>
                /\ RefIsRowOn(h, Tier1(h), MinDate(Nearest(Tier1(h), h)))
                /\ refs[h].is_actual

\* C2: for 1w, 1m and 1y, when no row lies in the Tier-1 window but one lies
\* in the Tier-2 window ([5,14], [20,40], [300,430]), the reference is a row
\* of the Tier-2 window nearest to the target lag.
C2_Tier2Closest ==
    Computed =>
        \A h \in LongHorizons :
            (Tier1(h) = {} /\ Tier2(h) # {}) =>
                \E i \in Nearest(Tier2(h), h) :
                    RefIsRowOn(h, Tier2(h), sdf[i].Date)

\* rows dated strictly before the last date
RowsBeforeLast == {i \in 1..Len(sdf) : sdf[i].Date < LastDate}

RowsBeforeTarget(h) == {i \in 1..Len(sdf) : AgeOf(i) >= TargetLag(h)}

C4_DailyNearest ==
    Computed =>
        IF RowsAged(1, 5) # {}
        THEN /\ RefIsRowOn("1d", RowsAged(1, 5), MaxDate(RowsAged(1, 5)))
             /\ refs["1d"].is_actual
        ELSE refs["1d"] = RowTriple(sdf[Len(sdf) - 1], FALSE)

\* C5: for every horizon, whenever no row is dated strictly before the last
\* date, the reference is (first price, first date, not actual).
C5_NoHistoryFallback ==
    (Computed /\ RowsBeforeLast = {}) =>
        \A h \in Horizons : refs[h] = RowTriple(sdf[1], FALSE)

-----------------------------------------------------------------------------
(* Year-to-date *)

\* rows dated on or after January 1 of the last date's year
RowsThisYear == {i \in 1..Len(sdf) : sdf[i].Date >= Jan1(LastDate)}

Min(S) == CHOOSE x \in S : \A y \in S : x <= y

\* C6: on a series of at least 2 rows the ytd reference is the first row of
\* the sorted series dated on or after January 1 of the last date's year,
\* change_ytd is the last price minus that price and change_ytd_pct is that
\* change over that price (Jan-2 price 100 and Dec-31 price 150 give 50, 0.5
\* and the reference date Jan 2).
C6_YtdEarliest ==
    Computed =>
        LET first == sdf[Min(RowsThisYear)]
        IN  /\ refs["ytd"].price = Some(first.Price)
            /\ refs["ytd"].date = Some(first.Date)
            /\ result.change_ytd_date = Some(first.Date)
            /\ result.change_ytd = Some(Last(sdf).Price - first.Price)
            /\ result.change_ytd_pct =
                   Some(<<Last(sdf).Price - first.Price, first.Price>>)
            /\ (first.Price = Tick(100) /\ Last(sdf).Price = Tick(150)) =>
                   /\ result.change_ytd = Some(Tick(50))
                   /\ 2 * result.change_ytd_pct[1][1] = result.change_ytd_pct[1][2]

\* a 2024 series: a row before the year, Jan 2 at 100, Dec 31 at 150
C6_Witness ==
    /\ Computed
    /\ Len(sdf) = 3
    /\ sdf[1].Date = 364
    /\ sdf[2] = [Date |-> 366, Price |-> Tick(100)]
    /\ sdf[3] = [Date |-> 730, Price |-> Tick(150)]
    /\ result.change_ytd = Some(Tick(50))
    /\ result.change_ytd_date = Some(366)

\* C7: whenever the ytd reference is the first row dated on or after
\* January 1 of the last date's year, change_ytd_has_actual_data is true.
C7_YtdActual ==
    Computed =>
        (refs["ytd"].date = Some(sdf[Min(RowsThisYear)].Date)
            => result.change_ytd_has_actual_data)

-----------------------------------------------------------------------------
(* Frequency detection *)

\* C8: fewer than 2 rows give (unknown, 30); otherwise a mean gap below 3
\* gives daily, from 3 to 10 inclusive weekly, above 10 monthly.
C8_FrequencyClasses ==
    pc = "done" =>
        IF Len(df) < 2 THEN freq = FreqTuple("unknown", 30, 1)
        ELSE /\ freq.sum < 3 * freq.n => freq.freq_type = "daily"
             /\ (3 * freq.n <= freq.sum /\ freq.sum <= 10 * freq.n)
                    => freq.freq_type = "weekly"
             /\ freq.sum > 10 * freq.n => freq.freq_type = "monthly"

\* the number of leading pairs of the series, capped at cap
LeadingPairs(cap) == IF Len(df) - 1 < cap THEN Len(df) - 1 ELSE cap

\* the mean gap is that of the first LeadingPairs(cap) consecutive pairs
MeanOverPairs(cap) ==
    /\ freq.n = LeadingPairs(cap)
    /\ freq.sum = df[LeadingPairs(cap) + 1].Date - df[1].Date

\* C9 as stated: the mean gap is the mean of the first min(n-1, 10) gaps.
C9_TenPairs == (pc = "done" /\ Len(df) >= 2) => MeanOverPairs(10)

\* C9 amended: the mean gap is the mean of the first min(n-1, 9) gaps: the
\* gap between the 9th and 10th rows counts whenever n >= 10, no later one.
C9_NinePairs == (pc = "done" /\ Len(df) >= 2) => MeanOverPairs(9)

\* eleven rows a day apart but for a 10-day gap between the 10th and 11th
C9_Witness ==
    /\ pc = "done"
    /\ Len(df) = 11
    /\ df[10].Date = 9
    /\ df[11].Date = 19
    /\ freq = FreqTuple("daily", 9, 9)

-----------------------------------------------------------------------------
(* Empty and single-row input *)

NullFields == {"last_price", "change_1d", "change_1d_pct", "change_1w",
               "change_1w_pct", "change_1m", "change_1m_pct", "change_1y",
               "change_1y_pct", "change_ytd", "change_ytd_pct"}

AllNull == \A k \in NullFields : k \in DOMAIN result /\ result[k] = None

\* C10 as stated: on an empty or single-row series last price and every
\* change are null and the frequency class is present with value unknown.
C10_NullWithUnknownFrequency ==
    (pc = "done" /\ Len(df) < 2) =>
        /\ AllNull
        /\ "freq_type" \in DOMAIN result
        /\ result["freq_type"] = "unknown"

\* C10 amended: on an empty or single-row series last price and every change
\* are null and the result carries no frequency class field at all.
C10_NullWithoutFrequency ==
    (pc = "done" /\ Len(df) < 2) =>
        /\ AllNull
        /\ "freq_type" \notin DOMAIN result

C10_Witness ==
    /\ pc = "done"
    /\ Len(df) = 1
    /\ result.last_price = None
    /\ result.change_ytd_pct = None

-----------------------------------------------------------------------------
(* Absolute and percent change *)

\* calc_price_change returned for two present prices
ChangeReturned == pc = "done" /\ args.current # None /\ args.previous # None

Divided == Some(<<args.current[1] - args.previous[1], args.previous[1]>>)

Clamped == Some(<<0, 1>>)

\* C11 as stated: the change is current - reference; the percent change is
\* change / reference, but 0 exactly when |reference| < 0.0001, so that a
\* reference of exactly 0.0001 is divided.
C11_ClampBelowThreshold ==
    ChangeReturned =>
        /\ out.change = Some(args.current[1] - args.previous[1])
        /\ out.pct = IF Abs(args.previous[1]) < SmallPrice THEN Clamped
                     ELSE Divided

\* C11 amended: the change is current - reference; the percent change is
\* change / reference, but 0 exactly when |reference| <= 0.0001, so that a
\* reference of exactly 0.0001 is clamped too.
C11_ClampUpToThreshold ==
    ChangeReturned =>
        /\ out.change = Some(args.current[1] - args.previous[1])
        /\ out.pct = IF Abs(args.previous[1]) <= SmallPrice THEN Clamped
                     ELSE Divided

\* a reference of exactly 0.0001 under a current price of 100
C11_Witness ==
    /\ pc = "done"
    /\ args = [current |-> Some(Tick(100)), previous |-> Some(SmallPrice)]
    /\ out = [change |-> Some(Tick(100) - SmallPrice), pct |-> Clamped]

-----------------------------------------------------------------------------
(* Sign of the changes *)

Sign(x) == IF x > 0 THEN 1 ELSE IF x < 0 THEN 0 - 1 ELSE 0

\* sign of a quotient kept as <<numerator, denominator>>
SignOfQuotient(q) == Sign(q[1]) * Sign(q[2])

ChangeOf(h) ==
    IF h = "1d" THEN result.change_1d
    ELSE IF h = "1w" THEN result.change_1w
    ELSE IF h = "1m" THEN result.change_1m
    ELSE IF h = "1y" THEN result.change_1y
    ELSE result.change_ytd

PctOf(h) ==
    IF h = "1d" THEN result.change_1d_pct
    ELSE IF h = "1w" THEN result.change_1w_pct
    ELSE IF h = "1m" THEN result.change_1m_pct
    ELSE IF h = "1y" THEN result.change_1y_pct
    ELSE result.change_ytd_pct

SameSign(h) == Sign(ChangeOf(h)[1]) = SignOfQuotient(PctOf(h)[1])

BothPresent(h) == ChangeOf(h) # None /\ PctOf(h) # None

\* C12 as stated: at every horizon whose absolute and percent change are both
\* present and whose reference price is above 0, the two have the same sign.
C12_SameSignAboveZero ==
    Computed =>
        \A h \in Horizons :
            BothPresent(h) /\ refs[h].price[1] > 0 => SameSign(h)

\* C12 amended: at every horizon whose absolute and percent change are both
\* present and whose reference price is above 0.0001, the two have the same
\* sign.
C12_SameSignAboveThreshold ==
    Computed =>
        \A h \in Horizons :
            BothPresent(h) /\ refs[h].price[1] > SmallPrice => SameSign(h)

\* a fall from a reference of 100 to 0.00005 over one day
C12_Witness ==
    /\ Computed
    /\ refs["1d"].price = Some(Tick(100))
    /\ result.change_1d = Some(1 - Tick(100))
    /\ result.change_1d_pct = Some(<<1 - Tick(100), Tick(100)>>)

-----------------------------------------------------------------------------
(* Best display period *)

\* the detected mean gap lies in (lo, hi], in days
MeanGapWithin(lo, hi) == lo * freq.n < freq.sum /\ freq.sum <= hi * freq.n

MeanGapUpTo(hi) == freq.sum <= hi * freq.n

DailyNative == freq.freq_type = "daily" /\ MeanGapUpTo(3)

WeeklyNative ==
    \/ freq.freq_type = "weekly" /\ MeanGapWithin(3, 10)
    \/ freq.freq_type = "daily" /\ ~DailyNative

\* C13: best_period follows from the detected frequency and mean gap: '1d'
\* when daily with a mean gap of at most 3 days; else '1w' when weekly with
\* a mean gap in (3, 10] or daily but not daily-native; else '1m'.
C13_BestPeriod ==
    Computed =>
        result.best_period = IF DailyNative THEN "1d"
                             ELSE IF WeeklyNative THEN "1w" ELSE "1m"

\* a weekly series whose mean gap is exactly 3 days gets '1m'
C13_Witness ==
    /\ Computed
    /\ freq.freq_type = "weekly"
    /\ freq.sum = 3 * freq.n
    /\ result.best_period = "1m"

-----------------------------------------------------------------------------
(* Order of the input rows *)

DistinctDates ==
    \A i, j \in 1..Len(df) : i # j => df[i].Date # df[j].Date

\* every arrangement of the rows of the input frame
Reordered == {[i \in 1..Len(df) |-> df[f[i]]] : f \in Perms(Len(df))}

\* C14: for a series of at least 2 points with pairwise distinct dates,
\* calculate_change on every permutation of the rows returns the same
\* dictionary (last price, changes, reference dates, flags, best_period) and
\* finds the same reference prices.
C14_OrderIndependent ==
    Computed /\ DistinctDates =>
        \A p \in Reordered : \A s \in get_sorted_dataframe(p) :
            /\ calculate_change(p, s) = result
            /\ PeriodPrices(s) = refs

\* three rows of distinct dates arriving latest first
C14_Witness ==
    /\ Computed
    /\ DistinctDates
    /\ Len(df) = 3
    /\ df[1].Date > df[2].Date
    /\ df[2].Date > df[3].Date
    /\ sdf = <<df[3], df[2], df[1]>>

-----------------------------------------------------------------------------
(* Normalization *)

-----------------------------------------------------------------------------
(* Validation *)

Validated == pc = "validated"

Rows == args.frame.rows

HasBothFields == {"Date", "Price"} \subseteq args.frame.columns

\* the frame passes both early returns
Inspected == Validated /\ Len(Rows) > 0 /\ HasBothFields

HasIssue(text) == \E k \in 1..Len(out.issues) : out.issues[k][1] = text

\* C16: an empty series, or one lacking the Date or Price field, is answered
\* with valid = false, exactly one issue ("No data available" or the missing
\* columns) and an empty metrics map: no check has run.
C16_RejectedWithOneIssue ==
    Validated /\ (Len(Rows) = 0 \/ ~HasBothFields) =>
        /\ out.valid = FALSE
        /\ Len(out.issues) = 1
        /\ \/ out.issues[1] = <<"No data available">>
           \/ /\ out.issues[1][1] = "Missing required columns"
              /\ Len(out.issues[1]) = 2
              /\ {out.issues[1][2][k] : k \in 1..Len(out.issues[1][2])}
                    = {"Date", "Price"} \ args.frame.columns
        /\ DOMAIN out.metrics = {}

\* two rows in a frame that has no Date column
C16_Witness ==
    /\ Validated
    /\ Len(Rows) = 2
    /\ args.frame.columns = {"Price", "Volume"}
    /\ out.valid = FALSE
    /\ out.issues = <<(<<"Missing required columns", <<"Date">> >>)>>
    /\ DOMAIN out.metrics = {}

MissingRows == {i \in 1..Len(Rows) : Rows[i].Price = None}

NegativeRows ==
    {i \in 1..Len(Rows) : Rows[i].Price # None /\ Rows[i].Price[1] < 0}

\* rows dated before the row they follow
Descents == {i \in 2..Len(Rows) : Rows[i].Date < Rows[i - 1].Date}

\* rows dated as the row they follow
AdjacentRepeats == {i \in 2..Len(Rows) : Rows[i].Date = Rows[i - 1].Date}

RepeatedRows ==
    {i \in 1..Len(Rows) : \E j \in 1..(i - 1) : Rows[j].Date = Rows[i].Date}

FutureRows == {i \in 1..Len(Rows) : Rows[i].Date > args.now}

\* rows whose price lies more than 3 sample standard deviations from the
\* mean: (m - 1) * (x - mean)^2 > 9 * sum of (x - mean)^2
OutlierRows ==
    LET m == Cardinality(Present(Rows))
        dev == Deviations(Rows)
        unit == GcdOf(dev, Len(Rows))
        d == [i \in 1..Len(Rows) |-> dev[i] \div unit]
    IN  IF m < 2 \/ unit = 0 THEN {}
        ELSE {i \in Present(Rows) :
                 (m - 1) * d[i] * d[i] > 9 * SquaresOf(d, Len(Rows))}

IfAny(S, text) == IF S = {} THEN <<>> ELSE <<(<<text, Cardinality(S)>>)>>

IfSet(count, text) ==
    IF count = None THEN <<>> ELSE <<(<<text, count[1]>>)>>

\* the issues of the triggered checks, one each, in the order of the checks
TriggeredIssues ==
    IfAny(MissingRows, "missing values")
    \o IfAny(NegativeRows, "negative prices")
    \o (IF Descents = {} THEN <<>>
        ELSE <<(<<"Dates are not in ascending order">>)>>)
    \o IfAny(RepeatedRows, "duplicate dates")
    \o IfAny(FutureRows, "dates in the future")
    \o IfAny(OutlierRows, "potential outliers")
    \o IfSet(out.metrics.large_jumps, "large price jumps")

\* C17: on a non-empty series with both fields every check runs: the issue
\* list holds exactly one issue per triggered check, whatever else
\* triggered, and valid is true exactly when the list is empty.
C17_EveryCheckRuns ==
    Inspected =>
        /\ out.issues = TriggeredIssues
        /\ out.valid = (Len(out.issues) = 0)

\* a NaN, a negative price, a descent, a repeated date, a future date and a
\* jump in one frame: six issues
C17_Witness ==
    /\ Inspected
    /\ Rows = <<[Date |-> 731, Price |-> None],
                [Date |-> 730, Price |-> Some(0 - 1)],
                [Date |-> 730, Price |-> Some(20)]>>
    /\ Len(out.issues) = 6
    /\ out.valid = FALSE

\* C18 as stated: a later row with an earlier date, or two adjacent rows of
\* equal dates, brings the date-order issue and valid = false.
C18_StrictOrder ==
    Inspected /\ (Descents # {} \/ AdjacentRepeats # {}) =>
        /\ HasIssue("Dates are not in ascending order")
        /\ out.valid = FALSE

\* C18 amended: the date-order issue is reported exactly when a later row
\* has an earlier date; two adjacent rows of equal dates bring the
\* duplicate-dates issue instead; valid is false in both cases.
C18_OrderOrDuplicate ==
    Inspected =>
        /\ HasIssue("Dates are not in ascending order") = (Descents # {})
        /\ AdjacentRepeats # {} => HasIssue("duplicate dates")
        /\ Descents # {} \/ AdjacentRepeats # {} => out.valid = FALSE

\* two rows of one date: a duplicate, no date-order issue
C18_Witness ==
    /\ Inspected
    /\ Len(Rows) = 2
    /\ Rows[1].Date = Rows[2].Date
    /\ out.issues = <<(<<"duplicate dates", 1>>)>>
    /\ out.valid = FALSE

\* C19: the negative-price issue is reported, with the number of prices
\* below 0, exactly when that number is above 0, and then valid is false.
C19_NegativeCount ==
    Inspected =>
        /\ NegativeRows # {} =>
              /\ \E k \in 1..Len(out.issues) :
                    out.issues[k] = <<"negative prices", Cardinality(NegativeRows)>>
              /\ out.valid = FALSE
        /\ NegativeRows = {} => ~HasIssue("negative prices")

\* one price of -5 after a price of 100
C19_Witness ==
    /\ Inspected
    /\ Rows = <<[Date |-> 729, Price |-> Some(20)],
                [Date |-> 730, Price |-> Some(0 - 1)]>>
    /\ \E k \in 1..Len(out.issues) : out.issues[k] = <<"negative prices", 1>>
    /\ out.valid = FALSE

PricesEqualTo(v) ==
    {i \in 1..Len(Rows) : Rows[i].Price # None /\ Rows[i].Price[1] = v}

\* C20: the reported outlier count is the number of prices more than 3
\* standard deviations from the mean; 20 prices of 100 and one of 10000 have
\* exactly 1; identical prices have no outlier issue.
C20_OutlierCount ==
    Inspected =>
        /\ out.metrics.outliers =
              IF OutlierRows = {} THEN None ELSE Some(Cardinality(OutlierRows))
        /\ OutlierRows # {} =>
              \E k \in 1..Len(out.issues) :
                  out.issues[k] = <<"potential outliers", Cardinality(OutlierRows)>>
        /\ OutlierRows = {} => ~HasIssue("potential outliers")
        /\ /\ Len(Rows) = 21
           /\ Cardinality(PricesEqualTo(20)) = 20
           /\ Cardinality(PricesEqualTo(2000)) = 1
           => out.metrics.outliers = Some(1)
        /\ (\E v \in {20, 2000} : Cardinality(PricesEqualTo(v)) = Len(Rows))
           => ~HasIssue("potential outliers")

\* 20 prices of 100 followed by one of 10000
C20_Witness ==
    /\ Inspected
    /\ Len(Rows) = 21
    /\ Cardinality(PricesEqualTo(20)) = 20
    /\ Rows[21].Price = Some(2000)
    /\ out.metrics.outliers = Some(1)
    /\ HasIssue("potential outliers")
    /\ out.valid = FALSE

-----------------------------------------------------------------------------
(* Validation summary *)

Summarized == pc = "summarized"

InvalidKeys ==
    {c \in DOMAIN args.validation_results : ~args.validation_results[c].valid}

\* C21: the summary counts every series, counts the valid ones, counts the
\* rest as invalid, and maps exactly the invalid series to their own issue
\* lists.
C21_Summary ==
    Summarized =>
        /\ out.total_commodities = Cardinality(DOMAIN args.validation_results)
        /\ out.valid_commodities =
              Cardinality(DOMAIN args.validation_results \ InvalidKeys)
        /\ out.commodities_with_issues =
              out.total_commodities - out.valid_commodities
        /\ DOMAIN out.issue_details = InvalidKeys
        /\ \A c \in InvalidKeys :
              out.issue_details[c] = args.validation_results[c].issues

\* three series, one valid, two invalid with different issue lists
C21_Witness ==
    /\ Summarized
    /\ DOMAIN args.validation_results = Commodities
    /\ args.validation_results["Copper"].valid
    /\ out.total_commodities = 3
    /\ out.valid_commodities = 1
    /\ out.commodities_with_issues = 2
    /\ out.issue_details["Gold"] = <<(<<"No data available">>)>>
    /\ out.issue_details["Zinc"] =
          <<(<<"negative prices", 1>>), (<<"duplicate dates", 1>>)>>

-----------------------------------------------------------------------------
(* Display texts *)

Rendered == pc = "rendered"

Starred(text) == Len(text) = 3 /\ text[3] = "*"

HasActualData(h) ==
    IF h = "1d" THEN result.change_1d_has_actual_data
    ELSE IF h = "1w" THEN result.change_1w_has_actual_data
    ELSE IF h = "1m" THEN result.change_1m_has_actual_data
    ELSE IF h = "1y" THEN result.change_1y_has_actual_data
    ELSE result.change_ytd_has_actual_data

\* C22: the text of a horizon carries an asterisk only if the horizon's
\* has_actual_data flag is false; a horizon whose reference is an actual
\* observation never shows one.
C22_AsteriskOnlyWithoutActualData ==
    Rendered =>
        \A h \in Horizons :
            Starred(out[h].text) => Len(df) >= 2 /\ ~HasActualData(h)

\* one tab with a plain weekly text and a starred yearly text
C22_Witness ==
    /\ Rendered
    /\ Len(df) >= 2
    /\ HasActualData("1w")
    /\ Len(out["1w"].text) = 2
    /\ ~HasActualData("1y")
    /\ Starred(out["1y"].text)

-----------------------------------------------------------------------------
(* Frames lacking a field *)

\* C23: calculate_change on a frame of 2 or more rows that lacks the Date or
\* the Price field raises nothing and returns the all-null result of the
\* empty input.
C23_ShortCircuitWithoutField ==
    /\ pc = "called"
    /\ Len(args.df.rows) >= 2
    /\ ~({"Date", "Price"} \subseteq args.df.columns)
    => out = Returned(EmptyResult)

-----------------------------------------------------------------------------
(* Batches *)

Requested ==
    {COMMODITIES[k].name : k \in {j \in 1..Len(COMMODITIES) :
        args.category = None \/ COMMODITIES[j].category = args.category[1]}}

\* the requested commodities whose fetch returned at least one row
Delivered ==
    {c \in Requested : /\ args.fetch[c].raised = None
                       /\ Len(args.fetch[c].returned[1].rows) > 0}

\* C24: get_all_commodity_data returns exactly the requested commodities
\* whose fetch produced a non-empty series, each with its series, whatever
\* raised for the others; validate_all_data then returns one result for
\* each series it was given.
C24_BatchSurvives ==
    /\ pc \in {"fetched", "validated_all"} =>
          /\ DOMAIN out.results = Delivered
          /\ \A c \in Delivered : out.results[c] = args.fetch[c].returned[1]
    /\ pc = "validated_all" =>
          /\ DOMAIN out.validation = DOMAIN out.results
          /\ \A c \in DOMAIN out.results :
                out.validation[c] \in
                    validate_dataframe(out.results[c], c, args.now)

\* Copper raises, Zinc brings rows, Gold comes back empty: Zinc alone is
\* returned and validated
C24_Witness ==
    /\ pc = "validated_all"
    /\ args.category = None
    /\ args.fetch["Copper"].raised # None
    /\ args.fetch["Zinc"].raised = None
    /\ Len(args.fetch["Zinc"].returned[1].rows) = 2
    /\ args.fetch["Gold"] = Returned([columns |-> FetchColumns, rows |-> <<>>])
    /\ DOMAIN out.results = {"Zinc"}
    /\ DOMAIN out.validation = {"Zinc"}
    /\ out.validation["Zinc"].valid

-----------------------------------------------------------------------------
(* Best period against the frequency class *)

\* C25: for a series of at least 2 points best_period is '1d' when the
\* detected class is daily, '1w' when it is weekly (a mean gap of exactly 3
\* days included) and '1m' when it is monthly.
C25_BestPeriodMatchesClass ==
    Computed =>
        /\ freq.freq_type = "daily" => result.best_period = "1d"
        /\ freq.freq_type = "weekly" => result.best_period = "1w"
        /\ freq.freq_type = "monthly" => result.best_period = "1m"

-----------------------------------------------------------------------------
(* Sources of a commodity's series *)

Got == pc = "got" /\ args.commodity # None

\* what each vendor fetch brought; no ticker, no rows
PreferredRows ==
    IF args.commodity[1].preferred_ticker = None THEN <<>>
    ELSE args.preferred.rows

AlternativeRows ==
    IF args.commodity[1].alternative_ticker = None THEN <<>>
    ELSE args.alternative.rows

Consulted(source) ==
    \E k \in 1..Len(out.consulted) : out.consulted[k] = source

\* C26: the preferred ticker comes first; the alternative ticker is fetched
\* only if the preferred result is empty or under 10 rows, and replaces it
\* only when the preferred is empty or the alternative has strictly more
\* rows; the sample data is used only if the result is still empty.  With
\* sample data the returned series is never empty, and it is tagged
\* 'Sample Data' exactly when both vendor fetches were empty.
C26_SourceOrder ==
    Got =>
        /\ \A j, k \in 1..Len(out.consulted) :
              j < k =>
                 /\ out.consulted[j] # "sample"
                 /\ out.consulted[j] = "preferred" \/ out.consulted[k] = "sample"
        /\ Consulted("alternative") => Len(PreferredRows) < EnoughRows
        /\ out.returned.rows = args.alternative.rows /\ Len(AlternativeRows) > 0
              => \/ Len(PreferredRows) = 0
                 \/ Len(AlternativeRows) > Len(PreferredRows)
        /\ Consulted("sample") =>
              Len(PreferredRows) = 0 /\ Len(AlternativeRows) = 0
        /\ args.in_sample_data =>
              /\ Len(out.returned.rows) > 0
              /\ (out.returned.data_source = Some("Sample Data"))
                    = (Len(PreferredRows) = 0 /\ Len(AlternativeRows) = 0)

\* 9 preferred rows against 11 alternative rows: the alternative is fetched
\* and taken, the sample data is left alone
C26_Witness ==
    /\ Got
    /\ Len(PreferredRows) = 9
    /\ Len(AlternativeRows) = 11
    /\ out.consulted = <<"preferred", "alternative">>
    /\ out.returned.rows = args.alternative.rows
    /\ out.returned.ticker = Some("XAU")

-----------------------------------------------------------------------------
(* The long horizons seen from the target date *)

\* the widest lag still flagged as an actual observation
UpperLag(h) == IF h = "1w" THEN 14 ELSE IF h = "1m" THEN 40 ELSE 430

-----------------------------------------------------------------------------
(* The references as points of the series *)

\* the reference of horizon h is a row of the sorted series, and the result
\* carries its date
RefIsPoint(h) ==
    /\ \E i \in 1..Len(sdf) :
          refs[h].price = Some(sdf[i].Price) /\ refs[h].date = Some(sdf[i].Date)
    /\ result[IF h = "1d" THEN "change_1d_date"
              ELSE IF h = "1w" THEN "change_1w_date"
              ELSE IF h = "1m" THEN "change_1m_date"
              ELSE IF h = "1y" THEN "change_1y_date"
              ELSE "change_ytd_date"] = refs[h].date

\* C28: on a series of at least 2 rows each reference (price, date) is a row
\* of the series, and the reference dates are ordered by horizon length:
\* date_1y <= date_1m <= date_1w <= date_1d <= last date.
C28_ReferencesOrdered ==
    Computed =>
        /\ \A h \in Horizons : RefIsPoint(h)
        /\ refs["1y"].date[1] <= refs["1m"].date[1]
        /\ refs["1m"].date[1] <= refs["1w"].date[1]
        /\ refs["1w"].date[1] <= refs["1d"].date[1]
        /\ refs["1d"].date[1] <= LastDate

\* rows 8, 1 and 0 days old: the 1d reference is the row one day old, the
\* 1w reference the row 8 days old, which the 1m horizon falls back to
C28_Witness ==
    /\ Computed
    /\ Len(sdf) = 3
    /\ AgeOf(1) = 8 /\ AgeOf(2) = 1
    /\ refs["1d"].date = Some(sdf[2].Date)
    /\ refs["1w"].date = Some(sdf[1].Date)
    /\ refs["1m"].date = Some(sdf[1].Date)

-----------------------------------------------------------------------------
(* One native horizon *)

\* the horizons among 1d, 1w and 1m that the result flags as native
NativeHorizons ==
    {h \in {"1d", "1w", "1m"} :
        result[IF h = "1d" THEN "change_1d_is_native"
               ELSE IF h = "1w" THEN "change_1w_is_native"
               ELSE "change_1m_is_native"]}

\* C29: for every frequency get_date_frequency returns on a series of at
\* least 2 rows, exactly one of change_1d_is_native, change_1w_is_native and
\* change_1m_is_native is true in the result, and best_period names it.
C29_OneNativeHorizon ==
    Computed =>
        /\ result.freq_type = freq.freq_type
        /\ result.avg_days_between_points = <<freq.sum, freq.n>>
        /\ NativeHorizons = {result.best_period}

\* a mean gap of exactly 3 days: weekly for the detector, and 1m is the one
\* native horizon
C29_Witness ==
    /\ Computed
    /\ freq.freq_type = "weekly"
    /\ freq.sum = 3 * freq.n
    /\ result.change_1m_is_native
    /\ ~result.change_1d_is_native
    /\ ~result.change_1w_is_native
    /\ result.best_period = "1m"

-----------------------------------------------------------------------------
(* The snapshots of a session *)

\* capture_data_snapshot has run in this session
Captured == "snapshots" \in DOMAIN out

\* min(k, 10) for k captures
KeptOf(k) == IF k < MaxSnapshots THEN k ELSE MaxSnapshots

\* C30: after any sequence of capture_data_snapshot calls in one session,
\* the session's snapshot list holds at most 10 entries, and they are the
\* most recent min(k, 10) of the k snapshots captured, in capture order.
C30_LastTenSnapshots ==
    Captured =>
        LET k == Len(result)
        IN  /\ Len(out.snapshots) <= MaxSnapshots
            /\ Len(out.snapshots) = KeptOf(k)
            /\ \A i \in 1..KeptOf(k) :
                  out.snapshots[i] = result[k - KeptOf(k) + i]

\* twelve captures on a moving clock: the list starts at the third snapshot
C30_Witness ==
    /\ Captured
    /\ Len(result) = 12
    /\ args.elapsed = 1
    /\ Len(out.snapshots) = 10
    /\ out.snapshots[1] = result[3]
    /\ out.snapshots[1].timestamp = 732
    /\ out.snapshots[10] = result[12]

=============================================================================
